---- MODULE Spec2Model ----
(***************************************************************************)
(* Model of examples/python_client.py, the ReverseIt Python test client:   *)
(* main() runs test_http(), sleeps, runs test_websocket() and exits.       *)
(* test_websocket() drives one WebSocket session through the callbacks     *)
(* on_open / on_message / on_error / on_close of a WebSocketApp.           *)
(*                                                                         *)
(* Text payloads are TLA+ strings, handled character by character the way  *)
(* the Python string operations handle them.  A message is a record        *)
(* [isbytes, str, octets]: str is the text of a text frame, octets the     *)
(* bytes of a binary frame (the unused field is empty).                    *)
(***************************************************************************)
EXTENDS Integers, Sequences, FiniteSets, TLC

VARIABLES
    pc,              \* position of main(): which call it is inside
    backend,         \* behaviour of the proxy + backend behind the session
    requests,        \* test_http: number of requests issued so far
    deviated,        \* test_http: some response deviated from the documented one
    http_ok,         \* main: result of test_http()
    tests_passed,    \* test_websocket: nonlocal tally
    rapid_messages,  \* test_websocket: nonlocal set of acknowledged indices
    binary_received, \* test_websocket: nonlocal flag
    sent,            \* session: how often each message was passed to ws.send
    closes,          \* session: number of ws.close() calls
    sends_after_close, \* session: ws.send calls made after the first ws.close()
    passed_at,       \* how often each branch of on_message incremented the tally
    delivered,       \* echoes of the script's stimuli handed to on_message so far
    inflight,        \* responses produced by the backend, not yet delivered
    ndeliv,          \* number of on_message invocations
    callback_error,  \* the latest callback ended in an exception
    ws_ok,           \* main: result of test_websocket()
    exit_status      \* argument of sys.exit, -1 while the process runs

vars == <<pc, backend, requests, deviated, http_ok, tests_passed,
          rapid_messages, binary_received, sent, closes, sends_after_close,
          passed_at, delivered, inflight, ndeliv, callback_error, ws_ok,
          exit_status>>

httpVars == <<requests, deviated, http_ok>>
driverVars == <<tests_passed, rapid_messages, binary_received, passed_at>>
sessionVars == <<sent, closes, sends_after_close, delivered,
                 inflight, ndeliv, callback_error>>

----------------------------------------------------------------------------
(* Bounds of the model *)

\* on_message invocations explored when the backend is arbitrary
MaxDeliver == 7
\* largest index k of an echo "Backend echo: Rapid message k" the arbitrary
\* backend may deliver (6 is outside the burst 1..5)
MaxRapidIdx == 6

----------------------------------------------------------------------------
(* Python string operations *)

RECURSIVE Repeat(_, _)
\* s * n
Repeat(s, n) ==
    IF n = 0 THEN ""
    ELSE IF n % 2 = 0 THEN LET h == Repeat(s, n \div 2) IN h \o h
    ELSE s \o Repeat(s, n - 1)

\* s.startswith(p)
StartsWith(s, p) == Len(s) >= Len(p) /\ SubSeq(s, 1, Len(p)) = p

\* p in s
Contains(s, p) ==
    \E i \in 0..(Len(s) - Len(p)) : SubSeq(s, i + 1, i + Len(p)) = p

Whitespace == {" ", "\t", "\n"}

CharAt(s, i) == SubSeq(s, i, i)

RECURSIVE LastNonWs(_, _)
\* the last position up to i that holds no whitespace, 0 if there is none
LastNonWs(s, i) ==
    IF i = 0 THEN 0
    ELSE IF CharAt(s, i) \notin Whitespace THEN i
    ELSE LastNonWs(s, i - 1)

RECURSIVE TokenStart(_, _)
\* the first position of the run of non-whitespace characters that ends at i
TokenStart(s, i) ==
    IF i = 0 THEN 1
    ELSE IF CharAt(s, i) \in Whitespace THEN i + 1
    ELSE TokenStart(s, i - 1)

\* s.split()[-1]: the last maximal run of non-whitespace characters
\* ("" stands for the IndexError of an all-whitespace string)
LastToken(s) ==
    LET e == LastNonWs(s, Len(s))
    IN  IF e = 0 THEN "" ELSE SubSeq(s, TokenStart(s, e), e)

Digits == {ToString(d) : d \in 0..9}

DigitVal(c) == CHOOSE d \in 0..9 : ToString(d) = c

\* int(t) succeeds: an optional sign and at least one decimal digit
IsInt(t) ==
    LET body == IF Len(t) > 0 /\ CharAt(t, 1) \in {"+", "-"}
                THEN SubSeq(t, 2, Len(t)) ELSE t
    IN  Len(body) > 0 /\ \A i \in 1..Len(body) : CharAt(body, i) \in Digits

RECURSIVE DigitsVal(_)
DigitsVal(t) ==
    IF Len(t) = 0 THEN 0
    ELSE 10 * DigitsVal(SubSeq(t, 1, Len(t) - 1)) + DigitVal(CharAt(t, Len(t)))

\* int(t), for t with IsInt(t)
ParseInt(t) ==
    IF CharAt(t, 1) = "-" THEN 0 - DigitsVal(SubSeq(t, 2, Len(t)))
    ELSE IF CharAt(t, 1) = "+" THEN DigitsVal(SubSeq(t, 2, Len(t)))
    ELSE DigitsVal(t)

----------------------------------------------------------------------------
(* Messages *)

Text(s) == [isbytes |-> FALSE, str |-> s, octets |-> <<>>]
Bytes(b) == [isbytes |-> TRUE, str |-> "", octets |-> b]

LargeLen == 10000
BurstSize == 5
PassThreshold == 4

\* the stimuli of the script
HelloStim == Text("Hello from Python!")
EmptyStim == Text("")
LargeStim == Text(Repeat("A", LargeLen))
RapidStim(i) == Text("Rapid message " \o ToString(i))
BinaryStim == Bytes(<<1, 2, 3, 4, 5>>)

RapidStims == {RapidStim(i) : i \in 1..BurstSize}
Stimuli == {HelloStim, EmptyStim, LargeStim, BinaryStim} \cup RapidStims

\* the example backend: text is echoed behind a prefix, binary unchanged
EchoPrefix == "Backend echo: "
EchoOf(m) == IF m.isbytes THEN m ELSE Text(EchoPrefix \o m.str)

ScriptEchoes == {EchoOf(s) : s \in Stimuli}

\* what an arbitrary peer may deliver: the echoes of the script, echoes of
\* rapid messages with an index outside the burst, rapid echoes whose last
\* token is not a number (one of them behind the prefix of the large echo),
\* another binary frame and unrelated text
Universe ==
    ScriptEchoes
      \cup {EchoOf(RapidStim(i)) : i \in 1..MaxRapidIdx}
      \cup {Text("Backend echo: Rapid message x"),
            Text("Backend echo: AAAA Backend echo: Rapid message x"),
            Bytes(<<1, 2, 3>>), Text("pong")}

----------------------------------------------------------------------------
(* Bags of messages, as functions from a finite set to counts *)

Count(bag, e) == IF e \in DOMAIN bag THEN bag[e] ELSE 0

AddAll(bag, calls) ==
    LET msgs == {calls[i].msg : i \in {j \in 1..Len(calls) : calls[j].op = "send"}}
        n(e) == Cardinality({i \in 1..Len(calls) :
                                calls[i].op = "send" /\ calls[i].msg = e})
    IN  [e \in DOMAIN bag \cup msgs |-> Count(bag, e) + n(e)]

RECURSIVE BagSum(_, _)
BagSum(bag, S) ==
    IF S = {} THEN 0
    ELSE LET e == CHOOSE x \in S : TRUE
         IN  bag[e] + BagSum(bag, S \ {e})

\* number of ws.send calls recorded in a bag
BagSize(bag) == BagSum(bag, DOMAIN bag)

Send(m) == [op |-> "send", msg |-> m]
Close == [op |-> "close", msg |-> Text("")]

NumSends(calls) == Cardinality({i \in 1..Len(calls) : calls[i].op = "send"})
NumCloses(calls) == Cardinality({i \in 1..Len(calls) : calls[i].op = "close"})

----------------------------------------------------------------------------
(* test_websocket: the callbacks *)

\* on_open: the first stimulus
OnOpenCalls == <<Send(HelloStim)>>

BurstCallsSix == [i \in 1..(BurstSize + 1) |-> Send(RapidStim(i))]

\* the five sends of "for i in range(1, 6)"
BurstCalls == [i \in 1..BurstSize |-> Send(RapidStim(i))]

BurstCompleteAtFour(rm) == Cardinality(rm) = BurstSize - 1

\* len(rapid_messages) == 5
BurstComplete(rm) == Cardinality(rm) = BurstSize

HandledFlagAlways(tp, rm, br, calls, branch) ==
    [tests_passed |-> tp, rapid_messages |-> rm, binary_received |-> TRUE,
     calls |-> calls, branch |-> branch, raised |-> FALSE]

\* What one invocation of on_message does to the nonlocal variables tp
\* (tests_passed), rm (rapid_messages), br (binary_received), the calls it
\* makes on ws in order, the branch that incremented the tally ("" if none)
\* and whether it ended in an exception.
Handled(tp, rm, br, calls, branch) ==
    [tests_passed |-> tp, rapid_messages |-> rm, binary_received |-> br,
     calls |-> calls, branch |-> branch, raised |-> FALSE]

RaisedAfterTally(tp, rm, br) ==
    [tests_passed |-> tp + 1, rapid_messages |-> rm, binary_received |-> br,
     calls |-> <<>>, branch |-> "", raised |-> TRUE]

Raised(tp, rm, br) ==
    [tests_passed |-> tp, rapid_messages |-> rm, binary_received |-> br,
     calls |-> <<>>, branch |-> "", raised |-> TRUE]

on_message(message, tp, rm, br) ==
    IF message.isbytes
    THEN IF message.octets = <<1, 2, 3, 4, 5>>
         THEN Handled(tp + 1, rm, TRUE, <<Close>>, "binary")
         ELSE Handled(tp, rm, br, <<>>, "")
    ELSE IF message.str = "Backend echo: Hello from Python!"
    THEN Handled(tp + 1, rm, br, <<Send(EmptyStim)>>, "hello")
    ELSE IF message.str = "Backend echo: "
    THEN Handled(tp + 1, rm, br, <<Send(LargeStim)>>, "empty")
    ELSE IF StartsWith(message.str, "Backend echo: AAAA")
    THEN Handled(tp + 1, rm, br, BurstCalls, "large")
    ELSE IF Contains(message.str, "Backend echo: Rapid message")
    THEN LET tok == LastToken(message.str)
         IN  IF ~IsInt(tok)
             THEN Raised(tp, rm, br)      \* int() raises ValueError
             ELSE LET num == ParseInt(tok)
                      acked == rm \cup {num}
                  IN  IF BurstComplete(acked)
                      THEN Handled(tp + 1, acked, br, <<Send(BinaryStim)>>,
                                   "rapid")
                      ELSE Handled(tp, acked, br, <<>>, "")
    ELSE Handled(tp, rm, br, <<>>, "")

PassesAtThree(tp) == tp >= PassThreshold - 1

PassesAllSix(tp) == tp >= 6

\* "if tests_passed >= 4" at the end of test_websocket
Passes(tp) == tp >= PassThreshold

ExitCodeEither(h, w) == IF h = "pass" \/ w = "pass" THEN 0 ELSE 1

\* "if http_ok and ws_ok: sys.exit(0) else: sys.exit(1)"
ExitCode(h, w) == IF h = "pass" /\ w = "pass" THEN 0 ELSE 1

----------------------------------------------------------------------------
(* test_http: the five requests, in the order of the code *)

NumChecks == 5

\* status code the probe colours green
ExpectedStatus(k) == IF k = 5 THEN 404 ELSE 200

\* A response: the request failed in transport (requests raises), or it has
\* a status and a body that is not JSON ("text"), a JSON object without the
\* documented field ("json") or one with it ("json_full").
Responses ==
    [failed : {TRUE}, status : {0}, body : {"none"}]
      \cup [failed : {FALSE}, status : {200, 404, 500},
            body : {"text", "json", "json_full"}]

\* the documented shape of the k-th response body
ShapeOk(k, r) ==
    CASE k = 2 -> r.body \in {"json", "json_full"}
      [] k = 3 -> r.body = "json_full"
      [] k = 4 -> r.body = "json_full"
      [] OTHER -> TRUE

\* the k-th response is not the documented one
Deviates(k, r) == r.failed \/ r.status # ExpectedStatus(k) \/ ~ShapeOk(k, r)

\* the k-th sub-check ends in an exception: the request itself, response.json()
\* on a body that is not JSON, or data['echo'] on an object without that key
CheckRaises(k, r) ==
    \/ r.failed
    \/ k \in {2, 3, 4} /\ r.body = "text"
    \/ k = 3 /\ r.body = "json"

----------------------------------------------------------------------------
(* The peer of the session.                                                *)
(*   "echo"       the example backend behind a correct proxy: every        *)
(*                message sent is echoed exactly once, delivery in any     *)
(*                order, the transport does not fail;                      *)
(*   "drop_..."   the same, but the echo of one stimulus is dropped (of     *)
(*                "Hello from Python!", the empty text, the large text,    *)
(*                "Rapid message 3" or the binary frame) and the session   *)
(*                is ended from outside (error, close by the peer,         *)
(*                keep-alive timeout);                                     *)
(*   "any"        any message of Universe at any time, the session may     *)
(*                fail or end at any time.                                 *)
(***************************************************************************)
Backends ==
    {"echo", "drop_hello", "drop_empty", "drop_large", "drop_rapid",
     "drop_binary", "any"}

\* the stimuli whose echo the backend drops
Dropped ==
    CASE backend = "drop_hello" -> {HelloStim}
      [] backend = "drop_empty" -> {EmptyStim}
      [] backend = "drop_large" -> {LargeStim}
      [] backend = "drop_rapid" -> {RapidStim(3)}
      [] backend = "drop_binary" -> {BinaryStim}
      [] OTHER -> {}

\* the responses the backend produces for the calls of one callback
Replies(calls) ==
    {EchoOf(calls[i].msg) :
        i \in {j \in 1..Len(calls) :
                 /\ calls[j].op = "send"
                 /\ calls[j].msg \notin Dropped}}

\* the effect of the calls of one callback on the session; fl are the
\* responses still in flight when the callback runs
Issue(calls, fl) ==
    /\ sent' = AddAll(sent, calls)
    /\ closes' = closes + NumCloses(calls)
    /\ sends_after_close' =
          sends_after_close + (IF closes > 0 THEN NumSends(calls) ELSE 0)
    /\ inflight' = IF backend = "any" \/ closes > 0 THEN fl
                   ELSE fl \cup Replies(calls)

----------------------------------------------------------------------------
Init ==
    /\ pc = "test_http"
    /\ backend \in Backends
    /\ requests = 0
    /\ deviated = FALSE
    /\ http_ok = "unset"
    /\ tests_passed = 0
    /\ rapid_messages = {}
    /\ binary_received = FALSE
    /\ sent = <<>>
    /\ closes = 0
    /\ sends_after_close = 0
    /\ passed_at = [b \in {"hello", "empty", "large", "rapid", "binary"} |-> 0]
    /\ delivered = {}
    /\ inflight = {}
    /\ ndeliv = 0
    /\ callback_error = FALSE
    /\ ws_ok = "unset"
    /\ exit_status = -1

\* test_http: one sub-check, the request with its response r.  An exception
\* ends the probe with False; the fifth sub-check ends it with True.
HttpCheck ==
    /\ pc = "test_http"
    /\ \E r \in Responses :
         LET k == requests + 1
         IN  /\ requests' = k
             /\ deviated' = (deviated \/ Deviates(k, r))
             /\ IF CheckRaises(k, r)
                THEN http_ok' = "fail" /\ pc' = "sleep"
                ELSE IF k = NumChecks
                THEN http_ok' = "pass" /\ pc' = "sleep"
                ELSE http_ok' = http_ok /\ pc' = pc
    /\ UNCHANGED <<backend, driverVars, sessionVars, ws_ok, exit_status>>

\* main: time.sleep(0.5), then test_websocket creates the WebSocketApp and
\* enters run_forever.  The record of test_http's requests ends with its
\* call; main keeps http_ok.
Sleep ==
    /\ pc = "sleep"
    /\ pc' = "connecting"
    /\ requests' = 0
    /\ deviated' = FALSE
    /\ UNCHANGED <<backend, http_ok, driverVars, sessionVars, ws_ok,
                   exit_status>>

\* on_open
OnOpen ==
    /\ pc = "connecting"
    /\ pc' = "run_forever"
    /\ Issue(OnOpenCalls, inflight)
    /\ callback_error' = FALSE
    /\ UNCHANGED <<backend, httpVars, driverVars, delivered, ndeliv, ws_ok,
                   exit_status>>

\* the run loop hands message m to on_message; fl are the responses still
\* in flight
Deliver(m, fl) ==
    /\ pc = "run_forever"
    /\ \E res \in {on_message(m, tests_passed, rapid_messages, binary_received)} :
           /\ tests_passed' = res.tests_passed
           /\ rapid_messages' = res.rapid_messages
           /\ binary_received' = res.binary_received
           /\ passed_at' = IF res.branch = "" THEN passed_at
                           ELSE [passed_at EXCEPT ![res.branch] = @ + 1]
           /\ callback_error' = res.raised
           /\ Issue(res.calls, fl)
    /\ delivered' = delivered \cup ({m} \cap ScriptEchoes)
    /\ ndeliv' = ndeliv + 1
    /\ UNCHANGED <<pc, backend, httpVars, ws_ok, exit_status>>

\* a response of the backend arrives
OnMessageEcho ==
    /\ backend # "any"
    /\ \E m \in inflight : Deliver(m, inflight \ {m})

\* an arbitrary peer delivers any message
OnMessageAny ==
    /\ backend = "any"
    /\ ndeliv < MaxDeliver
    /\ \E m \in Universe : Deliver(m, inflight)

\* the connection cannot be established: on_error, run_forever returns
ConnectFails ==
    /\ pc = "connecting"
    /\ backend = "any"
    /\ pc' = "verdict"
    /\ callback_error' = FALSE
    /\ UNCHANGED <<backend, httpVars, driverVars, sent, closes,
                   sends_after_close, delivered, inflight, ndeliv, ws_ok,
                   exit_status>>

\* the session ends from outside (error event, close by the peer, keep-alive
\* timeout): on_error / on_close only log, run_forever returns
SessionEnds ==
    /\ pc = "run_forever"
    /\ closes = 0
    /\ backend # "echo"
    /\ pc' = "verdict"
    /\ callback_error' = FALSE
    /\ UNCHANGED <<backend, httpVars, driverVars, sent, closes,
                   sends_after_close, delivered, inflight, ndeliv, ws_ok,
                   exit_status>>

\* after the driver's ws.close(): on_close logs, run_forever returns
OnClose ==
    /\ pc = "run_forever"
    /\ closes > 0
    /\ pc' = "verdict"
    /\ callback_error' = FALSE
    /\ UNCHANGED <<backend, httpVars, driverVars, sent, closes,
                   sends_after_close, delivered, inflight, ndeliv, ws_ok,
                   exit_status>>

\* "except Exception" of test_websocket: WebSocketApp(...) or run_forever
\* raises
WsRaises ==
    /\ pc \in {"connecting", "run_forever"}
    /\ backend = "any"
    /\ ws_ok' = "fail"
    /\ pc' = "report"
    /\ UNCHANGED <<backend, httpVars, driverVars, sessionVars, exit_status>>

\* test_websocket after run_forever: the verdict from the tally
Verdict ==
    /\ pc = "verdict"
    /\ ws_ok' = IF Passes(tests_passed) THEN "pass" ELSE "fail"
    /\ pc' = "report"
    /\ UNCHANGED <<backend, httpVars, driverVars, sessionVars, exit_status>>

\* main: sys.exit
Exit ==
    /\ pc = "report"
    /\ exit_status' = ExitCode(http_ok, ws_ok)
    /\ pc' = "exited"
    /\ UNCHANGED <<backend, httpVars, driverVars, sessionVars, ws_ok>>

Next ==
    \/ HttpCheck
    \/ Sleep
    \/ OnOpen
    \/ OnMessageEcho
    \/ OnMessageAny
    \/ ConnectFails
    \/ SessionEnds
    \/ OnClose
    \/ WsRaises
    \/ Verdict
    \/ Exit

Spec == Init /\ [][Next]_vars

\* The session behind the example backend, without the arbitrary peer: the
\* run loop dispatches every response it receives and main runs to its end.
InitScripted == Init /\ backend # "any"

NextScripted ==
    \/ HttpCheck
    \/ Sleep
    \/ OnOpen
    \/ OnMessageEcho
    \/ SessionEnds
    \/ OnClose
    \/ Verdict
    \/ Exit

FairSpec == InitScripted /\ [][NextScripted]_vars /\ WF_vars(NextScripted)

TypeOK ==
    /\ pc \in {"test_http", "sleep", "connecting", "run_forever", "verdict",
               "report", "exited"}
    /\ backend \in Backends
    /\ requests \in 0..NumChecks
    /\ http_ok \in {"unset", "pass", "fail"}
    /\ ws_ok \in {"unset", "pass", "fail"}
    /\ tests_passed \in Nat
    /\ binary_received \in BOOLEAN
    /\ exit_status \in {-1, 0, 1}
    /\ callback_error \in BOOLEAN

----------------------------------------------------------------------------
(* Properties *)

RapidEchoes == {EchoOf(s) : s \in RapidStims}
BurstSent == \E s \in RapidStims : Count(sent, s) > 0
WsReturned == pc \in {"report", "exited"}

\* C1: the stimulus of stage N+1 is never sent before the response of stage
\* N has been delivered, N in 1..4: the empty text only after the echo of
\* "Hello from Python!", the large text only after the echo of the empty
\* text, the rapid messages only after the echo of the large text, the binary
\* frame only after the echoes of the five rapid messages.
C1_StimulusAfterResponse ==
    /\ Count(sent, EmptyStim) > 0 => EchoOf(HelloStim) \in delivered
    /\ Count(sent, LargeStim) > 0 => EchoOf(EmptyStim) \in delivered
    /\ BurstSent => EchoOf(LargeStim) \in delivered
    /\ Count(sent, BinaryStim) > 0 => RapidEchoes \subseteq delivered

\* C2: when the five rapid echoes are delivered exactly once each, in any
\* order, the binary stimulus is sent exactly when all five have arrived, the
\* acknowledgment set then has exactly 5 elements, the binary stimulus is
\* sent once and the burst adds exactly one to the tally.
C2_BurstOrderIndependent ==
    backend = "echo" =>
        /\ Count(sent, BinaryStim) <= 1
        /\ Count(sent, BinaryStim) = 1 <=> RapidEchoes \subseteq delivered
        /\ Count(sent, BinaryStim) = 1 => Cardinality(rapid_messages) = 5
        /\ passed_at["rapid"] = Count(sent, BinaryStim)
        /\ BurstSent /\ closes = 0 =>
              tests_passed = 3 + passed_at["rapid"]

C2_Witness ==
    /\ backend = "echo"
    /\ RapidEchoes \subseteq delivered
    /\ Count(sent, BinaryStim) = 1
    /\ rapid_messages = 1..5
    /\ tests_passed = 4

\* C3: whatever burst echoes are delivered, the binary stimulus is sent at
\* most once and the burst stage increments the tally at most once.
C3_NoRepeatedTransition ==
    /\ Count(sent, BinaryStim) <= 1
    /\ passed_at["rapid"] <= 1

\* C4: the binary stimulus is sent only when the acknowledgment set is
\* exactly {1,2,3,4,5}.
C4_OnlyExactSet ==
    [][Count(sent', BinaryStim) > Count(sent, BinaryStim)
          => rapid_messages' = 1..5]_vars

\* C5: the acknowledgment set never has more than 5 elements.
C5_AckSetCapped == Cardinality(rapid_messages) <= 5

\* C6: once the binary frame [1,2,3,4,5] has been matched, exactly one close
\* has been issued over the whole session and no send follows it.
C6_IdempotentTermination ==
    binary_received => closes = 1 /\ sends_after_close = 0

\* C7: scenario A: with the echoing backend and every response delivered, the
\* driver eventually closes with a tally of 5 and the WebSocket probe
\* returns pass.
C7_ScenarioA ==
    backend = "echo" =>
        <>(closes = 1 /\ tests_passed = 5 /\ ws_ok = "pass")

C7_Witness ==
    /\ backend = "echo"
    /\ pc = "exited"
    /\ closes = 1
    /\ tests_passed = 5
    /\ ws_ok = "pass"
    /\ delivered = ScriptEchoes

\* C8 as stated: scenario B (the echo of the empty text is dropped, every
\* other response is delivered) ends with 4 of 5 checkpoints and pass; a run
\* ending with 3 of 5 reports fail.
C8_ScenarioB_Stated ==
    /\ backend = "drop_empty" /\ WsReturned /\ inflight = {} =>
          tests_passed = 4 /\ ws_ok = "pass"
    /\ WsReturned /\ tests_passed = 3 => ws_ok = "fail"

\* C8 amended: scenario B ends with at most 1 of 5 checkpoints (exactly 1
\* once the echo of "Hello from Python!" was delivered), nothing after the
\* empty text is sent, and the WebSocket probe reports fail; a run ending
\* with 3 of 5 reports fail.
C8_ScenarioB ==
    /\ backend = "drop_empty" =>
          /\ tests_passed <= 1
          /\ EchoOf(HelloStim) \in delivered => tests_passed = 1
          /\ Count(sent, LargeStim) = 0 /\ ~BurstSent
          /\ WsReturned => ws_ok = "fail"
    /\ WsReturned /\ tests_passed = 3 => ws_ok = "fail"

C8_Witness ==
    /\ backend = "drop_empty"
    /\ pc = "exited"
    /\ Count(sent, EmptyStim) = 1
    /\ tests_passed = 1
    /\ ws_ok = "fail"

\* C9: test_http returns False whenever one of its five responses deviates
\* from the documented status code or body shape.
C9_HttpDeviationFails ==
    pc = "sleep" /\ deviated => http_ok = "fail"

\* C10: main runs test_http to its end before anything of test_websocket,
\* runs test_websocket whatever test_http returned, and exits with 0 exactly
\* when both returned pass, with 1 otherwise.
C10_Aggregation ==
    /\ pc \in {"test_http", "sleep"} =>
          sent = <<>> /\ ndeliv = 0 /\ ws_ok = "unset"
    /\ pc = "test_http" <=> http_ok = "unset"
    /\ WsReturned <=> ws_ok # "unset"
    /\ pc # "exited" => exit_status = -1
    /\ pc = "exited" =>
          /\ exit_status \in {0, 1}
          /\ exit_status = 0 <=> (http_ok = "pass" /\ ws_ok = "pass")

C10_Witness ==
    /\ pc = "exited"
    /\ http_ok = "fail"
    /\ ws_ok = "pass"
    /\ exit_status = 1

\* an on_message invocation is a step that counts one more delivery
OnMessageStep == ndeliv' = ndeliv + 1

\* ws.send and ws.close calls made by the step
CallsInStep == (BagSize(sent') + closes') - (BagSize(sent) + closes)

\* C11 as stated: one invocation of on_message makes at most one send or
\* close call in total.
C11_AtMostOneCall_Stated ==
    [][OnMessageStep => CallsInStep <= 1]_vars

\* C11 amended: one invocation of on_message makes at most one send or close
\* call, except the invocation that handles the echo of the large text, which
\* makes exactly the five sends of the rapid burst and no close.
C11_AtMostOneCall ==
    [][OnMessageStep =>
          \/ CallsInStep <= 1 /\ passed_at'["large"] = passed_at["large"]
          \/ /\ passed_at'["large"] = passed_at["large"] + 1
             /\ CallsInStep = 5
             /\ closes' = closes
             /\ \A s \in RapidStims : Count(sent', s) = Count(sent, s) + 1]_vars

C11_Witness ==
    /\ backend = "echo"
    /\ passed_at["large"] = 1
    /\ \A s \in RapidStims : Count(sent, s) = 1
    /\ BagSize(sent) = 8

\* The stage the driver is at: the last stage of the script whose stimulus
\* it has sent (6 once it has closed).
AwaitedStage ==
    IF closes > 0 THEN 6
    ELSE IF Count(sent, BinaryStim) > 0 THEN 5
    ELSE IF BurstSent THEN 4
    ELSE IF Count(sent, LargeStim) > 0 THEN 3
    ELSE IF Count(sent, EmptyStim) > 0 THEN 2
    ELSE 1

\* the branch of on_message that handles the response of stage k
StageBranch(k) ==
    CASE k = 1 -> "hello"
      [] k = 2 -> "empty"
      [] k = 3 -> "large"
      [] k = 4 -> "rapid"
      [] k = 5 -> "binary"
      [] OTHER -> "closed"

\* C12: a delivered message that is not the response awaited at the current
\* stage changes neither tally, acknowledgment set nor flag and causes no
\* send and no close: whatever an on_message invocation changes or calls is
\* the work of the branch of the awaited stage.
C12_NonMatchingIgnored ==
    [][OnMessageStep =>
          /\ \A b \in DOMAIN passed_at :
                b # StageBranch(AwaitedStage) => passed_at'[b] = passed_at[b]
          /\ rapid_messages' # rapid_messages => AwaitedStage = 4
          /\ binary_received' # binary_received => AwaitedStage = 5
          /\ tests_passed' # tests_passed \/ sent' # sent \/ closes' # closes
                => /\ AwaitedStage <= 5
                   /\ passed_at'[StageBranch(AwaitedStage)]
                         > passed_at[StageBranch(AwaitedStage)]]_vars

\* C13: no stimulus of the script is passed to ws.send more than once in a
\* session.
C13_NoStimulusTwice == \A s \in Stimuli : Count(sent, s) <= 1

\* C14: when run_forever returns, test_websocket returns pass exactly if the
\* tally reached is at least 4, however the session ended (the driver's own
\* close, an error event, a timeout); the error and close events that end the
\* run loop leave tally, acknowledgment set and flag unchanged.
C14_VerdictFromTally ==
    [][/\ pc = "verdict" /\ pc' # "verdict" =>
             /\ ws_ok' = "pass" <=> tests_passed >= 4
             /\ ws_ok' = "fail" <=> tests_passed < 4
             /\ UNCHANGED <<tests_passed, rapid_messages, binary_received>>
       /\ pc \in {"connecting", "run_forever"} /\ pc' = "verdict" =>
             UNCHANGED <<tests_passed, rapid_messages, binary_received>>]_vars

\* a session ended from outside, without a close by the driver, with a tally
\* that passes
C14_Witness ==
    /\ pc = "report"
    /\ closes = 0
    /\ tests_passed >= 4
    /\ ws_ok = "pass"

\* the stimuli of stage k of the script
StageStims(k) ==
    CASE k = 1 -> {HelloStim}
      [] k = 2 -> {EmptyStim}
      [] k = 3 -> {LargeStim}
      [] k = 4 -> RapidStims
      [] k = 5 -> {BinaryStim}

\* every response of stage k has been delivered
StageAnswered(k) == {EchoOf(s) : s \in StageStims(k)} \subseteq delivered

C16_AllChecksIssued == pc = "sleep" => requests = 5

\* C17: the tally is within 0..6 in every state and never decreases.
C17_TallyRange ==
    [][tests_passed' \in 0..6 /\ tests_passed' >= tests_passed]_vars

\* C18: text and binary payloads are handled disjointly.  In every state of
\* the session, for every message that may be delivered next: a binary
\* message leaves the acknowledgment set alone and sends nothing; a text
\* message leaves the flag alone and does not close; the flag is set and
\* close is called only for the binary message [1,2,3,4,5].
C18_TextBinaryDisjoint ==
    pc = "run_forever" =>
        \A m \in Universe :
            \A res \in {on_message(m, tests_passed, rapid_messages,
                                   binary_received)} :
                /\ m.isbytes =>
                      /\ res.rapid_messages = rapid_messages
                      /\ NumSends(res.calls) = 0
                /\ ~m.isbytes =>
                      /\ res.binary_received = binary_received
                      /\ NumCloses(res.calls) = 0
                /\ res.binary_received # binary_received
                      \/ NumCloses(res.calls) > 0
                      => m = Bytes(<<1, 2, 3, 4, 5>>)

\* text messages have filled the acknowledgment set and the binary frame has
\* set the flag and closed
C18_Witness ==
    /\ pc = "run_forever"
    /\ rapid_messages = 1..5
    /\ binary_received
    /\ closes = 1
    /\ passed_at["binary"] = 1

\* the text messages that contain "Backend echo: Rapid message" and whose
\* last whitespace-separated token is not an integer
NonIntRapidTexts ==
    {m \in Universe :
        /\ ~m.isbytes
        /\ Contains(m.str, "Backend echo: Rapid message")
        /\ ~IsInt(LastToken(m.str))}

\* on_message, called with m in the current state, ends in an exception and
\* has changed nothing and called nothing
RaisesUnchanged(m) ==
    \A res \in {on_message(m, tests_passed, rapid_messages, binary_received)} :
        /\ res.raised
        /\ res.tests_passed = tests_passed
        /\ res.rapid_messages = rapid_messages
        /\ res.binary_received = binary_received
        /\ res.calls = <<>>

\* C19 as stated: every such message makes on_message end in an error with
\* acknowledgment set, tally and flag unchanged and nothing sent.
C19_NonIntegerRaises_Stated ==
    pc = "run_forever" => \A m \in NonIntRapidTexts : RaisesUnchanged(m)

\* C19 amended: in every state of the session, every such message that
\* does not start with "Backend echo: AAAA" makes on_message end in an error
\* with acknowledgment set, tally and flag unchanged and nothing sent or
\* closed.
C19_NonIntegerRaises ==
    pc = "run_forever" =>
        \A m \in NonIntRapidTexts :
            ~StartsWith(m.str, "Backend echo: AAAA") => RaisesUnchanged(m)

\* the first delivered message made on_message raise: nothing but the
\* stimulus of on_open has been sent, nothing counted
C19_Witness ==
    /\ ndeliv = 1
    /\ callback_error
    /\ tests_passed = 0
    /\ rapid_messages = {}
    /\ ~binary_received
    /\ sent = AddAll(<<>>, OnOpenCalls)
    /\ closes = 0

====
